---- MODULE Spec2Model ----
(***************************************************************************)
(* Model of the focus-navigation resolver of src/src/lib.rs:              *)
(* listen_nav_requests, resolve and their helpers, over small UI graphs.   *)
(* Entities are positive naturals; None (an absent Option) is 0.           *)
(***************************************************************************)
EXTENDS Naturals, Integers, Sequences, FiniteSets, TLC

VARIABLES
  graph,         \* the name of the UI graph read through NavQueries
  focus_state,   \* Focusable.focus_state of every focusable
  focused,       \* the entities carrying the Focused marker component
  requests,      \* the NavRequests read by the last run of listen_nav_requests
  events,        \* the NavEvents it sent
  panicked,      \* TRUE once a run has panicked
  panic_message, \* why
  call           \* a call of one helper function: its arguments and result

vars == <<graph, focus_state, focused, requests, events, panicked, panic_message, call>>

None == 0

\* Largest number of requests read by one run of listen_nav_requests.
MaxBatch == 2

\* Largest number of nested resolve calls / root_path iterations followed
\* before the model reports the computation as not finished.
MaxDepth == 6

\* The helper functions are called on sequences of at most MaxLen entities
\* drawn from 1..MaxEntity, on positions with coordinates in -1..MaxCoord,
\* and on hierarchies of MaxNodes entities.
MaxLen == 3

MaxEntity == 3

MaxCoord == 1

MaxNodes == 4

----------------------------------------------------------------------------
(* Small sequence helpers *)

Last(s) == s[Len(s)]

Front(s) == SubSeq(s, 1, Len(s) - 1)

Range(s) == {s[i] : i \in 1..Len(s)}

Contains(s, e) == \E i \in 1..Len(s) : s[i] = e

NoDuplicates(s) == \A i, j \in 1..Len(s) : i # j => s[i] # s[j]

\* All orderings of the set S, as sequences.
Orderings(S) ==
  {s \in [1..Cardinality(S) -> S] : \A i, j \in 1..Cardinality(S) : i # j => s[i] # s[j]}

----------------------------------------------------------------------------
(* The UI graphs.  A graph holds what NavQueries reads:                    *)
(*   parent      the Parent component (None for a hierarchy root)          *)
(*   children    the Children component, in order (<<>> when absent)       *)
(*   focusables  the entities carrying Focusable                           *)
(*   nav_fences  the entities carrying NavFence, in query iteration order  *)
(*   fence       the NavFence of each of them                              *)
(*   pos         GlobalTransform.translation.xy of each focusable          *)

NavFence(focus_parent, is_sequence_menu) ==
  [focus_parent |-> focus_parent, is_sequence_menu |-> is_sequence_menu]

\* A tabbed (sequence) root menu {2, 3}; 2 opens the submenu 4 = {5, 6},
\* where 6 sits under the plain node 7.
GraphMenu ==
  [ name       |-> "menu",
    entities   |-> 1..7,
    parent     |-> (1 :> None @@ 2 :> 1 @@ 3 :> 1 @@ 4 :> None @@ 5 :> 4 @@ 6 :> 7 @@ 7 :> 4),
    children   |-> (1 :> <<2, 3>> @@ 2 :> <<>> @@ 3 :> <<>> @@ 4 :> <<5, 7>>
                    @@ 5 :> <<>> @@ 6 :> <<>> @@ 7 :> <<6>>),
    focusables |-> {2, 3, 5, 6},
    nav_fences |-> <<1, 4>>,
    fence      |-> (1 :> NavFence(None, TRUE) @@ 4 :> NavFence(2, FALSE)),
    pos        |-> (2 :> <<0, 0>> @@ 3 :> <<2, 0>> @@ 5 :> <<0, 2>> @@ 6 :> <<2, 2>>) ]

\* A root menu not in sequence mode {2, 3}, a focusable 4 outside every
\* fence, and a fence 5 reachable from 3 that has no child at all.
GraphFlat ==
  [ name       |-> "flat",
    entities   |-> 1..5,
    parent     |-> (1 :> None @@ 2 :> 1 @@ 3 :> 1 @@ 4 :> None @@ 5 :> None),
    children   |-> (1 :> <<2, 3>> @@ 2 :> <<>> @@ 3 :> <<>> @@ 4 :> <<>> @@ 5 :> <<>>),
    focusables |-> {2, 3, 4},
    nav_fences |-> <<1, 5>>,
    fence      |-> (1 :> NavFence(None, FALSE) @@ 5 :> NavFence(3, FALSE)),
    pos        |-> (2 :> <<0, 0>> @@ 3 :> <<2, 0>> @@ 4 :> <<1, 1>>) ]

\* Fence 1 is reachable from its own child 2: a direct cycle.
GraphCycle ==
  [ name       |-> "cycle",
    entities   |-> 1..3,
    parent     |-> (1 :> None @@ 2 :> 1 @@ 3 :> 1),
    children   |-> (1 :> <<2, 3>> @@ 2 :> <<>> @@ 3 :> <<>>),
    focusables |-> {2, 3},
    nav_fences |-> <<1>>,
    fence      |-> (1 :> NavFence(2, FALSE)),
    pos        |-> (2 :> <<0, 0>> @@ 3 :> <<2, 0>>) ]

\* Fence 1 = {2} is reachable from 4 and fence 3 = {4} is reachable from 2:
\* a transitive cycle.
GraphCycle2 ==
  [ name       |-> "cycle2",
    entities   |-> 1..4,
    parent     |-> (1 :> None @@ 2 :> 1 @@ 3 :> None @@ 4 :> 3),
    children   |-> (1 :> <<2>> @@ 2 :> <<>> @@ 3 :> <<4>> @@ 4 :> <<>>),
    focusables |-> {2, 4},
    nav_fences |-> <<1, 3>>,
    fence      |-> (1 :> NavFence(4, FALSE) @@ 3 :> NavFence(2, FALSE)),
    pos        |-> (2 :> <<0, 0>> @@ 4 :> <<0, 2>>) ]

\* The root menu 1 holds the focusable 2 and, nested under it in the
\* hierarchy, the fence 3 = {5} reachable from 2; the focusable 4 is a child
\* of the focusable 2.
GraphNested ==
  [ name       |-> "nested",
    entities   |-> 1..5,
    parent     |-> (1 :> None @@ 2 :> 1 @@ 3 :> 1 @@ 4 :> 2 @@ 5 :> 3),
    children   |-> (1 :> <<2, 3>> @@ 2 :> <<4>> @@ 3 :> <<5>> @@ 4 :> <<>> @@ 5 :> <<>>),
    focusables |-> {2, 4, 5},
    nav_fences |-> <<1, 3>>,
    fence      |-> (1 :> NavFence(None, TRUE) @@ 3 :> NavFence(2, FALSE)),
    pos        |-> (2 :> <<0, 0>> @@ 4 :> <<2, 0>> @@ 5 :> <<0, 2>>) ]

Graphs == {GraphMenu, GraphFlat, GraphCycle, GraphCycle2, GraphNested}

\* Three levels of menus: the tabbed root menu 1 = {2, 3}; 2 opens the
\* menu 4 = {5, 6}; 5 opens the menu 7 = {8, 9}, nested under 4 in the
\* hierarchy.
GraphDeep ==
  [ name       |-> "deep",
    entities   |-> 1..9,
    parent     |-> (1 :> None @@ 2 :> 1 @@ 3 :> 1 @@ 4 :> None @@ 5 :> 4 @@ 6 :> 4
                    @@ 7 :> 4 @@ 8 :> 7 @@ 9 :> 7),
    children   |-> (1 :> <<2, 3>> @@ 2 :> <<>> @@ 3 :> <<>> @@ 4 :> <<5, 6, 7>>
                    @@ 5 :> <<>> @@ 6 :> <<>> @@ 7 :> <<8, 9>> @@ 8 :> <<>> @@ 9 :> <<>>),
    focusables |-> {2, 3, 5, 6, 8, 9},
    nav_fences |-> <<1, 4, 7>>,
    fence      |-> (1 :> NavFence(None, TRUE) @@ 4 :> NavFence(2, FALSE)
                    @@ 7 :> NavFence(5, FALSE)),
    pos        |-> (2 :> <<0, 0>> @@ 3 :> <<2, 0>> @@ 5 :> <<0, 2>> @@ 6 :> <<2, 2>>
                    @@ 8 :> <<0, 4>> @@ 9 :> <<2, 4>>) ]

IsFocusable(g, e) == e \in g.focusables

IsNavFence(g, e) == e \in DOMAIN g.fence

----------------------------------------------------------------------------
(* Requests and events *)

Direction == {"South", "North", "East", "West"}

MenuDirection == {"Next", "Previous"}

Move(direction) == [kind |-> "Move", direction |-> direction]

Cancel == [kind |-> "Cancel"]

Action == [kind |-> "Action"]

MenuMove(menu_direction) == [kind |-> "MenuMove", direction |-> menu_direction]

FocusOn(new_to_focus) == [kind |-> "FocusOn", target |-> new_to_focus]

NavRequest(g) ==
  {Move(d) : d \in Direction} \cup {Cancel, Action}
    \cup {MenuMove(d) : d \in MenuDirection} \cup {FocusOn(e) : e \in g.focusables}

FocusChanged(to, from) == [type |-> "FocusChanged", to |-> to, from |-> from]

Caught(from, request) == [type |-> "Caught", from |-> from, request |-> request]

\* A panic (assert!, unwrap on None, panic!) inside resolve.
Panic(why) == [type |-> "Panic", why |-> why]

\* The depth budget MaxDepth ran out before the computation returned.
Unfinished == [type |-> "Unfinished"]

\* NavEvent::focus_changed(to, from)
focus_changed(to, from) == FocusChanged(<<to>>, from)

----------------------------------------------------------------------------
(* Scope lookup *)

\* parent_nav_fence: the entity of the nearest ancestor carrying NavFence,
\* or None.  Its NavFence is g.fence[that entity].
RECURSIVE parent_nav_fence(_, _)
parent_nav_fence(g, focusable) ==
  LET parent == g.parent[focusable] IN
    IF parent = None THEN None
    ELSE IF IsNavFence(g, parent) THEN parent
    ELSE parent_nav_fence(g, parent)

\* children_focusables: the direct focusable children, then, for every direct
\* child that is neither focusable nor a fence, its own children_focusables.
RECURSIVE children_focusables(_, _)
RECURSIVE flat_map_children_focusables(_, _)
flat_map_children_focusables(g, es) ==
  IF es = <<>> THEN <<>>
  ELSE children_focusables(g, Head(es)) \o flat_map_children_focusables(g, Tail(es))

\* children_focusables returning the direct focusable children only.
children_focusables_direct_only(g, nav_fence) ==
  LET direct_children == g.children[nav_fence]
      is_focusable(e) == IsFocusable(g, e)
  IN SelectSeq(direct_children, is_focusable)

\* children_focusables that also descends into the direct children carrying
\* NavFence.
children_focusables_through_fences(g, nav_fence) ==
  LET direct_children == g.children[nav_fence]
      is_focusable(e) == IsFocusable(g, e)
      is_plain(e) == ~IsFocusable(g, e)
      focusables == SelectSeq(direct_children, is_focusable)
      transitive_focusables ==
        flat_map_children_focusables(g, SelectSeq(direct_children, is_plain))
  IN focusables \o transitive_focusables

children_focusables(g, nav_fence) ==
  LET direct_children == g.children[nav_fence]
      is_focusable(e) == IsFocusable(g, e)
      is_plain(e) == ~IsFocusable(g, e) /\ ~IsNavFence(g, e)
      focusables == SelectSeq(direct_children, is_focusable)
      transitive_focusables ==
        flat_map_children_focusables(g, SelectSeq(direct_children, is_plain))
  IN focusables \o transitive_focusables

\* non_inert_within: the first sibling that is not Inert, else the first
\* sibling, else None.
non_inert_within(siblings, fs) ==
  LET hits == {i \in 1..Len(siblings) : fs[siblings[i]] # "Inert"} IN
    IF hits # {} THEN siblings[CHOOSE i \in hits : \A j \in hits : i <= j]
    ELSE IF siblings # <<>> THEN siblings[1]
    ELSE None

----------------------------------------------------------------------------
(* Directional and sequential resolution *)

\* Direction::is_in(reference, other): the half-plane test of the direction.
is_in(direction, reference, other) ==
  CASE direction = "East"  -> other[1] > reference[1]
    [] direction = "West"  -> other[1] < reference[1]
    [] direction = "North" -> other[2] > reference[2]
    [] direction = "South" -> other[2] < reference[2]

distance_squared(a, b) ==
  (a[1] - b[1]) * (a[1] - b[1]) + (a[2] - b[2]) * (a[2] - b[2])

\* resolve_2d that takes the nearest sibling first and applies the
\* direction filter to it afterwards.
resolve_2d_nearest_first(g, focused_e, direction, siblings) ==
  LET focused_loc == g.pos[focused_e]
      other(sibling) == sibling # focused_e
      kept == SelectSeq(siblings, other)
      dist(i) == distance_squared(focused_loc, g.pos[kept[i]])
      mins == {i \in 1..Len(kept) : \A j \in 1..Len(kept) : dist(i) <= dist(j)}
  IN IF kept = <<>> THEN None
     ELSE LET nearest == kept[CHOOSE i \in mins : \A j \in mins : i <= j]
          IN IF is_in(direction, focused_loc, g.pos[nearest]) THEN nearest ELSE None

\* resolve_2d: among the siblings other than focused lying in the direction,
\* the first (in sibling order) of those nearest to focused; None if none.
resolve_2d(g, focused_e, direction, siblings) ==
  LET focused_loc == g.pos[focused_e]
      keep(sibling) == is_in(direction, focused_loc, g.pos[sibling]) /\ sibling # focused_e
      kept == SelectSeq(siblings, keep)
      dist(i) == distance_squared(focused_loc, g.pos[kept[i]])
      mins == {i \in 1..Len(kept) : \A j \in 1..Len(kept) : dist(i) <= dist(j)}
  IN IF kept = <<>> THEN None
     ELSE kept[CHOOSE i \in mins : \A j \in mins : i <= j]

\* resolve_sequence that wraps around at both ends of the siblings.
resolve_sequence_wraps(focused_e, direction, siblings) ==
  LET found == {i \in 1..Len(siblings) : siblings[i] = focused_e} IN
    IF found = {} THEN None
    ELSE LET focused_index == CHOOSE i \in found : \A j \in found : i <= j IN
      CASE direction = "Next" ->
             IF focused_index + 1 <= Len(siblings) THEN siblings[focused_index + 1]
             ELSE siblings[1]
        [] direction = "Previous" ->
             IF focused_index = 1 THEN siblings[Len(siblings)] ELSE siblings[focused_index - 1]

\* resolve_sequence: the sibling after or before focused, None at the ends
\* or when focused is not a sibling.
resolve_sequence(focused_e, direction, siblings) ==
  LET found == {i \in 1..Len(siblings) : siblings[i] = focused_e} IN
    IF found = {} THEN None
    ELSE LET focused_index == CHOOSE i \in found : \A j \in found : i <= j IN
      CASE direction = "Next" ->
             IF focused_index + 1 <= Len(siblings) THEN siblings[focused_index + 1] ELSE None
        [] direction = "Previous" ->
             IF focused_index = 1 THEN None ELSE siblings[focused_index - 1]

----------------------------------------------------------------------------
(* Paths *)

Min(a, b) == IF a <= b THEN a ELSE b

\* trim_common_tail, with i1 and i2 counted from 1: on the first difference
\* both sequences are truncated to one element past it (truncate is a no-op
\* beyond the length); reaching the front of either leaves both unchanged.
RECURSIVE trim_loop(_, _, _, _)
trim_loop(v1, v2, i1, i2) ==
  IF v1[i1] # v2[i2]
  THEN <<SubSeq(v1, 1, Min(Len(v1), i1 + 1)), SubSeq(v2, 1, Min(Len(v2), i2 + 1))>>
  ELSE IF i1 # 1 /\ i2 # 1 THEN trim_loop(v1, v2, i1 - 1, i2 - 1)
  ELSE <<v1, v2>>

trim_common_tail(v1, v2) == trim_loop(v1, v2, Len(v1), Len(v2))

\* The entry point of the fence containing e, or None at the root.
entry_point(g, e) ==
  LET parent == parent_nav_fence(g, e) IN
    IF parent = None THEN None ELSE g.fence[parent].focus_parent

\* The cycle check of root_path: TRUE when the next entry point was already
\* pushed.
root_path_cycle(ret, from) == Contains(ret, from)

\* root_path: from, then the entry points up to the root.  The result is
\* [path |-> ..] or, on a cycle, [panic |-> TRUE]; [unfinished |-> TRUE]
\* when the loop is still running after depth iterations.
RECURSIVE root_path_loop(_, _, _, _)
root_path_loop(g, ret, from, depth) ==
  LET next == entry_point(g, from) IN
    IF next = None THEN [path |-> ret, panic |-> FALSE, unfinished |-> FALSE]
    ELSE IF root_path_cycle(ret, next)
      THEN [path |-> ret, panic |-> TRUE, unfinished |-> FALSE]
    ELSE IF depth = 0
      THEN [path |-> ret, panic |-> FALSE, unfinished |-> TRUE]
    ELSE root_path_loop(g, Append(ret, next), next, depth - 1)

root_path(g, from) == root_path_loop(g, <<from>>, from, MaxDepth)

----------------------------------------------------------------------------
(* resolve *)

\* The first NavFence, in query order, whose focus_parent is focused_e.
child_nav_fence_of(g, focused_e) ==
  LET hits == {i \in 1..Len(g.nav_fences) :
                 g.fence[g.nav_fences[i]].focus_parent = focused_e} IN
    IF hits = {} THEN None
    ELSE g.nav_fences[CHOOSE i \in hits : \A j \in hits : i <= j]

\* resolve without its cycle assertion.
assert_no_cycle_dropped(from, focused_e) == TRUE

\* The second assertion of resolve: focused_e is not yet on the path.
assert_no_cycle(from, focused_e) == ~Contains(from, focused_e)

\* resolve(focused, request, queries, from).  queries is the graph g, the
\* focus states fs and ord, the iteration order of the focusables query.
\* depth counts the nested calls still allowed.
RECURSIVE resolve(_, _, _, _, _, _, _)
resolve(g, fs, ord, focused_e, request, from0, depth) ==
  IF ~IsFocusable(g, focused_e) THEN Panic("not a focusable")
  ELSE IF ~assert_no_cycle(from0, focused_e) THEN Panic("cycle")
  ELSE
    LET from == Append(from0, focused_e)
        parent == parent_nav_fence(g, focused_e)
    IN
    CASE request.kind = "Move" ->
           LET siblings == IF parent # None THEN children_focusables(g, parent) ELSE ord
               to == resolve_2d(g, focused_e, request.direction, siblings)
           IN IF to # None THEN focus_changed(to, from) ELSE Caught(from, request)
      [] request.kind = "Cancel" ->
           IF parent # None /\ g.fence[parent].focus_parent # None
           THEN LET to == g.fence[parent].focus_parent
                IN focus_changed(to, Append(from, to))
           ELSE Caught(from, request)
      [] request.kind = "Action" ->
           LET child_nav_fence == child_nav_fence_of(g, focused_e) IN
             IF child_nav_fence = None THEN Caught(from, request)
             ELSE LET to == non_inert_within(children_focusables(g, child_nav_fence), fs)
                  IN IF to = None THEN Panic("unwrap on None")
                     ELSE FocusChanged(<<to>> \o from, from)
      [] request.kind = "MenuMove" ->
           IF parent = None THEN Caught(from, request)
           ELSE
             LET siblings == children_focusables(g, parent) IN
               IF g.fence[parent].is_sequence_menu
               THEN LET to == resolve_sequence(focused_e, request.direction, siblings)
                    IN IF to # None THEN focus_changed(to, from) ELSE Caught(from, request)
               ELSE IF g.fence[parent].focus_parent = None THEN Panic("unwrap on None")
               ELSE IF depth = 0 THEN Unfinished
               ELSE resolve(g, fs, ord, g.fence[parent].focus_parent, request, from, depth - 1)
      [] request.kind = "FocusOn" ->
           LET from_path == root_path(g, focused_e)
               to_path == root_path(g, request.target)
           IN IF from_path.panic THEN Panic("cycle")
              ELSE IF from_path.unfinished THEN Unfinished
              ELSE IF to_path.panic THEN Panic("cycle")
              ELSE IF to_path.unfinished THEN Unfinished
              ELSE LET trimmed == trim_common_tail(from_path.path, to_path.path)
                   IN FocusChanged(trimmed[2], trimmed[1])

----------------------------------------------------------------------------
(* listen_nav_requests *)

\* One queued command: insert Focusable::with_state(state) on entity and
\* insert ("insert"), remove ("remove") or leave ("keep") its Focused marker.
Command(entity, state, marker) == [entity |-> entity, state |-> state, marker |-> marker]

\* commit with `from` split at its first element instead of its last: the
\* first element is disabled, the others are put to sleep.
commit_split_first(event) ==
  IF event.type # "FocusChanged" THEN <<>>
  ELSE
    LET disable == Head(event.from)
        put_to_sleep == Tail(event.from)
        focus == Head(event.to)
        activate == Tail(event.to)
    IN <<Command(disable, "Inert", "remove")>>
         \o [i \in 1..Len(put_to_sleep) |-> Command(put_to_sleep[i], "Dormant", "remove")]
         \o <<Command(focus, "Focused", "insert")>>
         \o [i \in 1..Len(activate) |-> Command(activate[i], "Active", "keep")]

\* commit without the test for FocusChanged on the `from` side: a Caught
\* event disables and puts to sleep its `from` as well.
commit_also_on_caught(event) ==
  LET disable == Last(event.from)
      put_to_sleep == Front(event.from)
      to == IF event.type = "FocusChanged" THEN event.to ELSE <<>>
  IN <<Command(disable, "Inert", "remove")>>
       \o [i \in 1..Len(put_to_sleep) |-> Command(put_to_sleep[i], "Dormant", "remove")]
       \o (IF to = <<>> THEN <<>> ELSE <<Command(Head(to), "Focused", "insert")>>)
       \o [i \in 1..(Len(to) - 1) |-> Command(to[i + 1], "Active", "keep")]

\* commit that does not disable the last element of `from`.
commit_without_disable(event) ==
  IF event.type # "FocusChanged" THEN <<>>
  ELSE
    LET put_to_sleep == Front(event.from)
        focus == Head(event.to)
        activate == Tail(event.to)
    IN [i \in 1..Len(put_to_sleep) |-> Command(put_to_sleep[i], "Dormant", "remove")]
         \o <<Command(focus, "Focused", "insert")>>
         \o [i \in 1..Len(activate) |-> Command(activate[i], "Active", "keep")]

\* The commands queued for one event: nothing unless it is FocusChanged.
commit(event) ==
  IF event.type # "FocusChanged" THEN <<>>
  ELSE
    LET disable == Last(event.from)
        put_to_sleep == Front(event.from)
        focus == Head(event.to)
        activate == Tail(event.to)
    IN <<Command(disable, "Inert", "remove")>>
         \o [i \in 1..Len(put_to_sleep) |-> Command(put_to_sleep[i], "Dormant", "remove")]
         \o <<Command(focus, "Focused", "insert")>>
         \o [i \in 1..Len(activate) |-> Command(activate[i], "Active", "keep")]

\* The world after the queued commands are applied, in order.
RECURSIVE apply_commands(_, _, _)
apply_commands(fs, foc, commands) ==
  IF commands = <<>> THEN [focus_state |-> fs, focused |-> foc]
  ELSE LET c == Head(commands) IN
    apply_commands(
      [fs EXCEPT ![c.entity] = c.state],
      CASE c.marker = "insert" -> foc \cup {c.entity}
        [] c.marker = "remove" -> foc \ {c.entity}
        [] c.marker = "keep"   -> foc,
      Tail(commands))

\* focused.get_single() without its assertion: with several entities
\* carrying Focused the fallback is taken as well.
focused_id_of_unasserted(foc, ord) ==
  IF Cardinality(foc) = 1 THEN CHOOSE e \in foc : TRUE
  ELSE ord[1]

\* focused.get_single(), with its fallback: the one entity carrying Focused,
\* the first focusable of the query when none does, None (a panic) when
\* several do.
focused_id_of(foc, ord) ==
  IF Cardinality(foc) = 1 THEN CHOOSE e \in foc : TRUE
  ELSE IF foc = {} THEN ord[1]
  ELSE None

\* The loop over the requests of one run.  Every request is resolved against
\* the world as it was when the system started: the commands are only
\* queued.  A panic ends the run and drops the queue.
RECURSIVE run_loop(_, _, _, _, _, _, _)
run_loop(g, fs, foc, ord, reqs, evs, commands) ==
  IF reqs = <<>>
  THEN [events |-> evs, commands |-> commands, panicked |-> FALSE, why |-> ""]
  ELSE
    LET focused_id == focused_id_of(foc, ord) IN
      IF focused_id = None
      THEN [events |-> evs, commands |-> <<>>, panicked |-> TRUE, why |-> "multiple Focused"]
      ELSE
        LET event == resolve(g, fs, ord, focused_id, Head(reqs), <<>>, MaxDepth) IN
          IF event.type = "Panic"
          THEN [events |-> evs, commands |-> <<>>, panicked |-> TRUE, why |-> event.why]
          ELSE IF event.type = "Unfinished"
          THEN [events |-> evs, commands |-> <<>>, panicked |-> TRUE, why |-> "unfinished"]
          ELSE run_loop(g, fs, foc, ord, Tail(reqs), Append(evs, event),
                        commands \o commit(event))

\* The requests one run may read.
Batches(g) == UNION {[1..n -> NavRequest(g)] : n \in 1..MaxBatch}

\* The graph the world holds.
World ==
  CASE graph = "menu"   -> GraphMenu
    [] graph = "flat"   -> GraphFlat
    [] graph = "cycle"  -> GraphCycle
    [] graph = "cycle2" -> GraphCycle2
    [] graph = "nested" -> GraphNested
    [] graph = "deep"   -> GraphDeep

\* One run of the system over the requests reqs, read in arrival order; ord
\* is the iteration order of the focusables query during the run.  The
\* queued commands are applied when the run has ended without a panic.
listen_nav_requests(reqs, ord) ==
  /\ ~panicked
  /\ \E run \in {run_loop(World, focus_state, focused, ord, reqs, <<>>, <<>>)} :
       \E world \in {apply_commands(focus_state, focused, run.commands)} :
         /\ focus_state' = world.focus_state
         /\ focused' = world.focused
         /\ events' = run.events
         /\ panicked' = run.panicked
         /\ panic_message' = run.why
  /\ requests' = reqs
  /\ UNCHANGED <<graph, call>>

\* No helper function is called on its own.
NoCall == [fn |-> "none", args |-> <<>>, done |-> FALSE, result |-> <<>>]

Init ==
  /\ graph \in {g.name : g \in Graphs}
  /\ focus_state = [e \in World.focusables |-> "Inert"]
  /\ focused = {}
  /\ requests = <<>>
  /\ events = <<>>
  /\ panicked = FALSE
  /\ panic_message = ""
  /\ call = NoCall

\* The focusables outside every fence.
unfenced(g) == {e \in g.focusables : parent_nav_fence(g, e) = None}

\* The elements of the set S in increasing order.
RECURSIVE Sorted(_)
Sorted(S) ==
  IF S = {} THEN <<>>
  ELSE LET m == CHOOSE x \in S : \A y \in S : x <= y IN <<m>> \o Sorted(S \ {m})

\* The iteration orders of the focusables query a run may meet.  The source
\* does not fix the order, so every ordering is possible.  A run reads the
\* whole order only in a Move resolved from a focusable outside every fence,
\* and the first element only in the fallback taken when no entity carries
\* Focused; runs that differ in nothing they read are taken once.
QueryOrders(g, foc, reqs) ==
  LET move == \E i \in 1..Len(reqs) : reqs[i].kind = "Move"
      from_unfenced == IF foc = {} THEN unfenced(g) # {} ELSE foc \cap unfenced(g) # {}
  IN IF move /\ from_unfenced THEN Orderings(g.focusables)
     ELSE IF foc = {} THEN {<<e>> \o Sorted(g.focusables \ {e}) : e \in g.focusables}
     ELSE {Sorted(g.focusables)}

Next ==
  \E reqs \in Batches(World) :
    \E ord \in QueryOrders(World, focused, reqs) :
      listen_nav_requests(reqs, ord)

Spec == Init /\ [][Next]_vars

\* The system run once per tick with a single request waiting; these runs
\* are also taken on the three-level GraphDeep.
InitOnePerTick ==
  /\ graph \in {g.name : g \in Graphs \cup {GraphDeep}}
  /\ focus_state = [e \in World.focusables |-> "Inert"]
  /\ focused = {}
  /\ requests = <<>>
  /\ events = <<>>
  /\ panicked = FALSE
  /\ panic_message = ""
  /\ call = NoCall

NextOnePerTick ==
  \E request \in NavRequest(World) :
    \E ord \in QueryOrders(World, focused, <<request>>) :
      listen_nav_requests(<<request>>, ord)

SpecOnePerTick == InitOnePerTick /\ [][NextOnePerTick]_vars

----------------------------------------------------------------------------
(* The helper functions called on their own.  The arguments are drawn from *)
(* bounded sets in the initial state; one action per function applies it.  *)

SeqsUpTo(S, n) == UNION {[1..k -> S] : k \in 0..n}

\* The NonEmpty vectors given to trim_common_tail, and the pair of its test.
Chains == {s \in SeqsUpTo(1..MaxEntity, MaxLen) : s # <<>>}

TestChains == << <<1, 2, 3, 4, 5, 6, 7>>, <<3, 2, 1, 4, 5, 6, 7>> >>

TrimInputs == Chains \X Chains

\* Sibling lists: no entity occurs twice.
SiblingLists == {s \in SeqsUpTo(1..MaxEntity, MaxLen) : NoDuplicates(s)}

SequenceInputs == (1..MaxEntity) \X MenuDirection \X SiblingLists

Points == (-1..MaxCoord) \X (-1..MaxCoord)

Reverse(s) == [i \in 1..Len(s) |-> s[Len(s) + 1 - i]]

\* The sibling lists given to resolve_2d: every set of entities, in
\* increasing and in decreasing order.
MonotoneLists ==
  {Sorted(S) : S \in SUBSET (1..MaxEntity)}
    \cup {Reverse(Sorted(S)) : S \in SUBSET (1..MaxEntity)}

\* The transforms, the focused entity, the direction and the siblings.
\* resolve_2d reads the entities through equality and the positions through
\* comparisons and differences with the position of focused, so focused is
\* always entity 1, placed at the origin; the sibling lists hold it or not.
Resolve2dInputs ==
  {[pos |-> (1 :> <<0, 0>>) @@ p] : p \in [2..MaxEntity -> Points]}
    \X {1} \X Direction \X MonotoneLists

\* The hierarchies over 1..MaxNodes rooted in the fence 1: every other
\* entity hangs under an earlier one and carries Focusable, NavFence, both
\* or neither; Children lists the children in increasing order.
TreeGraph(par, kind) ==
  LET fences == {e \in 1..MaxNodes : kind[e] \in {"fence", "focusable_fence"}}
      focusables == {e \in 1..MaxNodes : kind[e] \in {"focusable", "focusable_fence"}}
  IN [ name       |-> "tree",
       entities   |-> 1..MaxNodes,
       parent     |-> par,
       children   |-> [e \in 1..MaxNodes |-> Sorted({x \in 1..MaxNodes : par[x] = e})],
       focusables |-> focusables,
       nav_fences |-> Sorted(fences),
       fence      |-> [e \in fences |-> NavFence(None, FALSE)],
       pos        |-> [e \in focusables |-> <<0, 0>>] ]

TreeParents ==
  {f \in [1..MaxNodes -> 0..MaxNodes] :
     f[1] = None /\ \A e \in 2..MaxNodes : f[e] \in 1..(e - 1)}

TreeKinds ==
  {k \in [1..MaxNodes -> {"focusable", "fence", "focusable_fence", "plain"}] : k[1] = "fence"}

\* children_focusables is called on the graph g for each of its fences.
ChildrenInputs(g) == {<<g, c>> : c \in DOMAIN g.fence}

Pending(fn, args) == [fn |-> fn, args |-> args, done |-> FALSE, result |-> <<>>]

Returned(result) == [call EXCEPT !.done = TRUE, !.result = result]

HelpersInit ==
  /\ graph = "menu"
  /\ focus_state = [e \in World.focusables |-> "Inert"]
  /\ focused = {}
  /\ requests = <<>>
  /\ events = <<>>
  /\ panicked = FALSE
  /\ panic_message = ""
  /\ \/ \E a \in TrimInputs : call = Pending("trim_common_tail", a)
     \/ call = Pending("trim_common_tail", TestChains)
     \/ \E a \in SequenceInputs : call = Pending("resolve_sequence", a)
     \/ \E a \in Resolve2dInputs : call = Pending("resolve_2d", a)
     \/ \E par \in TreeParents, kind \in TreeKinds :
          \E a \in ChildrenInputs(TreeGraph(par, kind)) :
            call = Pending("children_focusables", a)
     \/ \E g \in Graphs :
          \E a \in ChildrenInputs(g) : call = Pending("children_focusables", a)

world_vars == <<graph, focus_state, focused, requests, events, panicked, panic_message>>

call_trim_common_tail ==
  /\ call.fn = "trim_common_tail" /\ ~call.done
  /\ call' = Returned(trim_common_tail(call.args[1], call.args[2]))
  /\ UNCHANGED world_vars

call_resolve_sequence ==
  /\ call.fn = "resolve_sequence" /\ ~call.done
  /\ call' = Returned(resolve_sequence(call.args[1], call.args[2], call.args[3]))
  /\ UNCHANGED world_vars

call_resolve_2d ==
  /\ call.fn = "resolve_2d" /\ ~call.done
  /\ call' = Returned(resolve_2d(call.args[1], call.args[2], call.args[3], call.args[4]))
  /\ UNCHANGED world_vars

call_children_focusables ==
  /\ call.fn = "children_focusables" /\ ~call.done
  /\ call' = Returned(children_focusables(call.args[1], call.args[2]))
  /\ UNCHANGED world_vars

HelpersNext ==
  \/ call_trim_common_tail
  \/ call_resolve_sequence
  \/ call_resolve_2d
  \/ call_children_focusables

SpecHelpers == HelpersInit /\ [][HelpersNext]_vars

----------------------------------------------------------------------------
(* Vocabulary of the properties *)

\* The focusables whose focus_state is Focused.
FocusedNodes == {e \in DOMAIN focus_state : focus_state[e] = "Focused"}

\* The last run ended without a panic and its commands were applied.
Committed == ~panicked /\ requests # <<>>

\* The request on which the last run panicked.
FailedRequest == requests[Len(events) + 1]

\* The entry-point relation of g has no cycle.
Acyclic(g) == \A e \in g.focusables : ~root_path_loop(g, <<e>>, e, Cardinality(g.entities)).panic

\* e is its own entry point, directly or transitively.
RECURSIVE reaches(_, _, _, _)
reaches(g, from, target, steps) ==
  LET next == entry_point(g, from) IN
    /\ next # None
    /\ \/ next = target
       \/ steps > 0 /\ reaches(g, next, target, steps - 1)

OnCycle(g, e) == reaches(g, e, e, Cardinality(g.entities))

\* The indices of the FocusChanged events of the last run.
ChangedEvents == {i \in 1..Len(events) : events[i].type = "FocusChanged"}

----------------------------------------------------------------------------
(* C1 *)

\* C1: in every reachable state, however the requests are grouped into runs
\* of listen_nav_requests, at most one focusable has focus_state Focused.
C1_AtMostOneFocused == Cardinality(FocusedNodes) <= 1

(* C2 *)

LastChanged == events[CHOOSE i \in ChangedEvents : \A j \in ChangedEvents : j <= i]

Touched(evs) ==
  UNION {Range(evs[i].from) \cup Range(evs[i].to) :
           i \in {j \in 1..Len(evs) : evs[j].type = "FocusChanged"}}

\* C4: a request whose outcome is Caught changes no focus_state and no
\* Focused marker: a run changes only the nodes named by its FocusChanged
\* events, so a run whose outcomes are all Caught changes nothing.
C4_CaughtChangesNothing ==
  [][ \A e \in DOMAIN focus_state :
        e \notin Touched(events') =>
          /\ focus_state'[e] = focus_state[e]
          /\ (e \in focused') = (e \in focused) ]_vars

\* A run of two Caught outcomes while a node is focused.
C4_Witness ==
  /\ Committed /\ Len(events) = 2
  /\ \A i \in 1..Len(events) : events[i].type = "Caught"
  /\ FocusedNodes # {}

(* C5 *)

\* The worlds one run over the single request req can leave from a world
\* of ws, over every iteration order.
one_tick(g, ws, req) ==
  UNION {
    IF w.panicked THEN {w}
    ELSE { LET run == run_loop(g, w.focus_state, w.focused, ord, <<req>>, <<>>, <<>>)
               world == apply_commands(w.focus_state, w.focused, run.commands)
           IN [focus_state |-> world.focus_state, focused |-> world.focused,
               panicked |-> run.panicked]
           : ord \in Orderings(g.focusables) }
    : w \in ws }

\* The worlds left by delivering reqs one per run.
RECURSIVE one_per_tick(_, _, _)
one_per_tick(g, ws, reqs) ==
  IF reqs = <<>> THEN ws ELSE one_per_tick(g, one_tick(g, ws, Head(reqs)), Tail(reqs))

\* C5: requests delivered in one run leave the focus states that the same
\* requests leave when delivered one per run (where no run panics).
C5_BatchAsOnePerTick ==
  [][ LET ws == one_per_tick(World,
                  {[focus_state |-> focus_state, focused |-> focused, panicked |-> panicked]},
                  requests')
      IN (~panicked' /\ \A w \in ws : ~w.panicked) =>
           [focus_state |-> focus_state', focused |-> focused', panicked |-> FALSE] \in ws
    ]_vars

(* C6 *)

\* C6: on a graph with a cycle, a Cancel, Action, delegated MenuMove or
\* FocusOn resolved from a node on the cycle ends in a panic: it sends no
\* event.
C6_CycleAlwaysPanics ==
  \A i \in 1..Len(events) :
    ~ /\ OnCycle(World, events[i].from[1])
      /\ \/ requests[i].kind \in {"Cancel", "Action", "FocusOn"}
         \/ requests[i].kind = "MenuMove" /\ Len(events[i].from) >= 2

(* C7 *)

\* C7: on every graph, cyclic ones included, every request of a run ends in
\* an event or a panic within the depth budget, and neither the MenuMove
\* delegation nor root_path visits a node twice.
C7_ResolveFinishes ==
  /\ panic_message # "unfinished"
  /\ IF panicked THEN Len(events) < Len(requests) ELSE Len(events) = Len(requests)
  /\ \A i \in 1..Len(events) :
       /\ events[i].type \in {"FocusChanged", "Caught"}
       /\ requests[i].kind = "MenuMove" => NoDuplicates(events[i].from)
       /\ requests[i].kind = "FocusOn" =>
            NoDuplicates(events[i].from) /\ NoDuplicates(events[i].to)

\* A MenuMove on the transitive cycle, delegated until the cycle assertion
\* stopped it.
C7_Witness ==
  /\ graph = "cycle2"
  /\ panicked /\ panic_message = "cycle"
  /\ FailedRequest.kind = "MenuMove"

(* C8 *)

\* C8: on an acyclic graph a MenuMove resolved from the one focused node
\* never panics: delegated up to the root, it is Caught.
C8_MenuMoveNeverPanics ==
  ~ /\ panicked
    /\ Acyclic(World)
    /\ Cardinality(focused) = 1
    /\ FailedRequest.kind = "MenuMove"

(* C9 *)

\* C9: Action on the entry point of a fence without focusables is Caught:
\* an Action resolved from the one focused node never panics.
C9_ActionNeverPanics ==
  ~ /\ panicked
    /\ Cardinality(focused) = 1
    /\ FailedRequest.kind = "Action"

(* C10 *)

\* C10: on an acyclic graph, when a Cancel from d changed the focus to the
\* entry point p, an Action in the next run changes the focus back to d.
C10_ResumeWhereYouLeftOff ==
  [][ ( /\ Acyclic(World)
        /\ Committed
        /\ requests = <<Cancel>>
        /\ events[1].type = "FocusChanged"
        /\ requests' = <<Action>> )
      => ( /\ ~panicked'
           /\ events'[1].type = "FocusChanged"
           /\ events'[1].to[1] = events[1].from[1] ) ]_vars

----------------------------------------------------------------------------
(* C11 *)

\* C11: in every state where a node holds Focused, every other node on
\* root_path of that node (the entry points up to the root) holds Active.
C11_PathToFocusedIsActive ==
  \A f \in FocusedNodes :
    LET path == root_path(World, f) IN
      (~path.panic /\ ~path.unfinished) =>
        \A i \in 2..Len(path.path) : focus_state[path.path[i]] = "Active"

----------------------------------------------------------------------------
(* C12 *)

\* C12: a Move resolved from a node that has a containing fence is either
\* Caught or changes focus to one node, different from the node it was
\* resolved from, whose containing fence is the same.
C12_MoveStaysInScope ==
  \A i \in 1..Len(events) :
    requests[i].kind = "Move" =>
      LET focused_e == events[i].from[1]
          scope == parent_nav_fence(World, focused_e)
      IN scope # None =>
           \/ events[i].type = "Caught"
           \/ /\ events[i].type = "FocusChanged"
              /\ Len(events[i].to) = 1
              /\ events[i].to[1] # focused_e
              /\ parent_nav_fence(World, events[i].to[1]) = scope

\* A Move resolved inside a fence has changed the focus.
C12_Witness ==
  \E i \in 1..Len(events) :
    /\ requests[i].kind = "Move"
    /\ events[i].type = "FocusChanged"
    /\ parent_nav_fence(World, events[i].from[1]) # None

----------------------------------------------------------------------------
(* C13 *)

\* v is a prefix of w.
IsPrefix(v, w) == Len(v) <= Len(w) /\ v = SubSeq(w, 1, Len(v))

\* C13: trim_common_tail on two non-empty sequences with equal last
\* elements leaves prefixes of them that end with exactly one common
\* element: both lose the same number of elements, the last elements left
\* are equal, and the elements before them, if both exist, differ.
C13_TrimLeavesOneAnchor ==
  (call.fn = "trim_common_tail" /\ call.done
     /\ Last(call.args[1]) = Last(call.args[2])) =>
    LET v1 == call.result[1]
        v2 == call.result[2]
    IN /\ v1 # <<>> /\ v2 # <<>>
       /\ IsPrefix(v1, call.args[1]) /\ IsPrefix(v2, call.args[2])
       /\ Len(call.args[1]) - Len(v1) = Len(call.args[2]) - Len(v2)
       /\ Last(v1) = Last(v2)
       /\ (Len(v1) > 1 /\ Len(v2) > 1) => v1[Len(v1) - 1] # v2[Len(v2) - 1]

----------------------------------------------------------------------------
(* C14 *)

\* C14: on siblings without duplicates, resolve_sequence returns nothing
\* when focused is not a sibling; with focused at position i it returns, for
\* Next, the sibling at i + 1 or nothing when i is the last position and,
\* for Previous, the sibling at i - 1 or nothing when i is the first.
C14_SequenceNoWrapAround ==
  (call.fn = "resolve_sequence" /\ call.done) =>
    LET focused_e == call.args[1]
        direction == call.args[2]
        siblings == call.args[3]
    IN /\ ~Contains(siblings, focused_e) => call.result = None
       /\ \A i \in 1..Len(siblings) :
            siblings[i] = focused_e =>
              /\ (direction = "Next" /\ i = Len(siblings)) => call.result = None
              /\ (direction = "Next" /\ i < Len(siblings)) => call.result = siblings[i + 1]
              /\ (direction = "Previous" /\ i = 1) => call.result = None
              /\ (direction = "Previous" /\ i > 1) => call.result = siblings[i - 1]

\* Next was asked from the last of several siblings and nothing was returned.
C14_Witness ==
  /\ call.fn = "resolve_sequence" /\ call.done
  /\ call.args[2] = "Next"
  /\ Len(call.args[3]) > 1
  /\ Last(call.args[3]) = call.args[1]
  /\ call.result = None

----------------------------------------------------------------------------
(* C15 *)

\* C15: a run that starts while more than one entity carries the Focused
\* marker panics on its first request: it sends no event and changes no
\* focus state and no marker.
C15_MultipleFocusedIsFatal ==
  [][Cardinality(focused) > 1 =>
       /\ panicked' /\ panic_message' = "multiple Focused"
       /\ events' = <<>>
       /\ focus_state' = focus_state
       /\ focused' = focused]_vars

\* A run has panicked on several Focused markers.
C15_Witness ==
  /\ panicked /\ panic_message = "multiple Focused"
  /\ Cardinality(focused) > 1
  /\ requests # <<>> /\ events = <<>>

----------------------------------------------------------------------------
(* C16 *)

\* The focusables of g whose containing fence is c.
scope_members(g, c) == {n \in g.focusables : parent_nav_fence(g, n) = c}

\* Between n and its containing fence lies an entity carrying Focusable.
RECURSIVE behind_focusable(_, _)
behind_focusable(g, n) ==
  LET parent == g.parent[n] IN
    /\ parent # None
    /\ ~IsNavFence(g, parent)
    /\ (IsFocusable(g, parent) \/ behind_focusable(g, parent))

\* C16 as claimed: children_focusables(c) holds exactly the focusables
\* whose parent_nav_fence is c.
C16_ChildrenAreScopeMembers ==
  (call.fn = "children_focusables" /\ call.done) =>
    Range(call.result) = scope_members(call.args[1], call.args[2])

\* C16: children_focusables(c) holds, once each, exactly the focusables
\* whose parent_nav_fence is c and that are not descendants of another
\* focusable inside c.
C16_ChildrenAreUncoveredScopeMembers ==
  (call.fn = "children_focusables" /\ call.done) =>
    /\ NoDuplicates(call.result)
    /\ Range(call.result) =
         {n \in scope_members(call.args[1], call.args[2]) : ~behind_focusable(call.args[1], n)}

\* children_focusables returned a focusable found under a plain entity and
\* left out a focusable lying under another focusable of the same fence.
C16_Witness ==
  /\ call.fn = "children_focusables" /\ call.done
  /\ \E n \in Range(call.result) : call.args[1].parent[n] # call.args[2]
  /\ \E n \in scope_members(call.args[1], call.args[2]) : behind_focusable(call.args[1], n)

----------------------------------------------------------------------------
(* C17 *)

\* The siblings other than focused_e lying in the direction from it.
candidates(g, focused_e, direction, siblings) ==
  {s \in Range(siblings) :
     s # focused_e /\ is_in(direction, g.pos[focused_e], g.pos[s])}

\* C17: resolve_2d returns nothing exactly when no sibling other than
\* focused lies in the direction; otherwise it returns such a sibling, at
\* the least squared distance from focused among them.
C17_NearestInDirection ==
  (call.fn = "resolve_2d" /\ call.done) =>
    LET g == call.args[1]
        focused_e == call.args[2]
        cands == candidates(g, focused_e, call.args[3], call.args[4])
    IN /\ call.result = None <=> cands = {}
       /\ call.result # None =>
            /\ call.result \in cands
            /\ \A c \in cands :
                 distance_squared(g.pos[focused_e], g.pos[call.result])
                   <= distance_squared(g.pos[focused_e], g.pos[c])

\* resolve_2d returned a sibling in the direction although another sibling,
\* not in the direction, is strictly nearer to focused.
C17_Witness ==
  /\ call.fn = "resolve_2d" /\ call.done
  /\ call.result # None
  /\ \E s \in Range(call.args[4]) \ {call.args[2]} :
       /\ ~is_in(call.args[3], call.args[1].pos[call.args[2]], call.args[1].pos[s])
       /\ distance_squared(call.args[1].pos[call.args[2]], call.args[1].pos[s])
            < distance_squared(call.args[1].pos[call.args[2]], call.args[1].pos[call.result])

----------------------------------------------------------------------------
(* C18 *)

\* What one request resolves to in the current world when the focusables
\* query iterates in the order ord.
outcome(request, ord) ==
  LET focused_id == focused_id_of(focused, ord) IN
    IF focused_id = None THEN Panic("multiple Focused")
    ELSE resolve(World, focus_state, ord, focused_id, request, <<>>, MaxDepth)

\* C18: the outcome of a request is a function of the graph, the focus
\* states and the request: it is the same under every iteration order of
\* the focusables query.
C18_ResolutionIsDeterministic ==
  ~panicked =>
    \A request \in NavRequest(World) :
      \A ord \in Orderings(World.focusables) :
        outcome(request, ord) = outcome(request, Sorted(World.focusables))

----------------------------------------------------------------------------
(* C19 *)

\* The focusables whose focus_state is Active.
ActiveNodes == {e \in DOMAIN focus_state : focus_state[e] = "Active"}

\* C19: on a graph without cycle, run with one request per tick, every
\* Active node lies on root_path of a Focused node.
C19_ActiveOnFocusedPath ==
  Acyclic(World) =>
    \A a \in ActiveNodes :
      \E f \in FocusedNodes : Contains(root_path(World, f).path, a)

\* A focus change that left a path of two nodes or more has been committed
\* and some node is Active.
C19_Witness ==
  /\ Acyclic(World)
  /\ ActiveNodes # {}
  /\ Len(events) = 1
  /\ events[1].type = "FocusChanged"
  /\ Len(events[1].from) >= 2

----------------------------------------------------------------------------
(* C20 *)

\* C20: an entity carries the Focused marker exactly when its focus_state
\* is Focused.
C20_MarkerIffFocused == focused = FocusedNodes

====
